---------------------------- MODULE Spec2Model ----------------------------
(***************************************************************************)
(* plantumlwatch: configuration resolution, Watcher validation, the        *)
(* file-modification handler and the watch loop.                           *)
(*                                                                         *)
(* The repository holds two revisions of the module:                       *)
(*   "Configurator"  : src/src/plantumlwatch.py (class Configurator)       *)
(*   "configuration" : src/plantumlwatch.py     (function configuration()) *)
(* The variable `variant` says which one runs.                             *)
(*                                                                         *)
(* Strings the program inspects character by character (paths, extension,  *)
(* format, the command line) are sequences of one-character strings.       *)
(***************************************************************************)
EXTENDS Integers, Sequences, FiniteSets, TLC

VARIABLES
    variant,     \* which revision of plantumlwatch.py runs
    files,       \* configuration files on disk: filename -> state of the file
    cli,         \* flags given on the command line (main only)
    command,     \* positional COMMAND words on the command line (main only)
    pc,          \* position of the main thread
    argopts,     \* the options handed to the resolver
    config,      \* the resolver's result
    watcher,     \* the constructed Watcher (its _configuration)
    exc,         \* the exception in flight / last raised
    stderr,      \* diagnostics written by sys.exit
    status,      \* process exit status (-1 while running)
    stdout,      \* reports printed by the handler, in order
    observer,    \* watchdog observer: "none", "scheduled", "started", "stopped", "joined"
    queue,       \* notifications delivered by the OS, not yet dispatched
    render,      \* the handler's position: idle, or the render in flight
    invocations, \* every command handed to subprocess.call, in order
    outcomes,    \* what became of each invocation, in order
    handled,     \* every notification dispatched to the handler, in order
    fsevents,    \* which notifications the file system can produce in this run
    budget       \* how many more notifications it will deliver

vars == <<variant, files, cli, command, pc, argopts, config, watcher, exc, stderr,
          status, stdout, observer, queue, render, invocations, outcomes, handled,
          fsevents, budget>>

----------------------------------------------------------------------------
(* Strings *)

\* str.endswith
EndsWith(s, suffix) ==
    /\ Len(s) >= Len(suffix)
    /\ SubSeq(s, Len(s) - Len(suffix) + 1, Len(s)) = suffix

\* str.startswith
StartsWith(s, prefix) ==
    /\ Len(s) >= Len(prefix)
    /\ SubSeq(s, 1, Len(prefix)) = prefix

\* str.replace(old, new): every non-overlapping occurrence, left to right
RECURSIVE Replace(_, _, _)
Replace(s, old, new) ==
    IF Len(s) < Len(old) \/ old = <<>> THEN s
    ELSE IF StartsWith(s, old)
         THEN new \o Replace(SubSeq(s, Len(old) + 1, Len(s)), old, new)
         ELSE <<Head(s)>> \o Replace(Tail(s), old, new)

\* str.format on a template: a sequence of characters and "{name}" fields
RECURSIVE Format(_, _)
Format(template, fields) ==
    IF template = <<>> THEN <<>>
    ELSE (IF Head(template) \in DOMAIN fields
          THEN fields[Head(template)]
          ELSE <<Head(template)>>) \o Format(Tail(template), fields)

----------------------------------------------------------------------------
(* Module constants *)

Variants == {"Configurator", "configuration"}

Keys == {"verbose", "java", "plantuml", "watchdir", "extension", "outputdir", "format"}

\* CONFIGURATION_FILE_NAME / CONFIG_FILENAME, ".plantumlwatch" (shortened to ".pw")
CONFIGURATION_FILE_NAME == <<".", "p", "w">>
\* os.path.expanduser("~/.plantumlwatch") and os.path.abspath("./.plantumlwatch")
HomeFile == <<"~", "/">> \o CONFIGURATION_FILE_NAME
CwdFile == <<"/", "w", "/">> \o CONFIGURATION_FILE_NAME

DEFAULT_VERBOSE == FALSE
DEFAULT_JAVA == <<"j", "a", "v", "a">>
DEFAULT_PLANTUML(v) ==
    IF v = "Configurator" THEN <<"p", "l", "a", "n", "t", "u", "m", "l">>
    ELSE <<"p", "l", "a", "n", "t", "u", "m", "l", ".", "j", "a", "r">>
Cwd == <<"/", "w">>
DEFAULT_WATCH_DIRECTORY == Cwd
DEFAULT_WATCH_EXTENSION == <<"p", "u">>
DEFAULT_OUTPUT_DIRECTORY == Cwd
DEFAULT_OUTPUT_FORMAT == <<"p", "n", "g">>

DEFAULT_CONFIGURATION(v) ==
    [verbose |-> DEFAULT_VERBOSE,
     java |-> DEFAULT_JAVA,
     plantuml |-> DEFAULT_PLANTUML(v),
     watchdir |-> DEFAULT_WATCH_DIRECTORY,
     extension |-> DEFAULT_WATCH_EXTENSION,
     outputdir |-> DEFAULT_OUTPUT_DIRECTORY,
     format |-> DEFAULT_OUTPUT_FORMAT]

Svg == <<"s", "v", "g">>
Gif == <<"g", "i", "f">>
VALID_OUTPUT_FORMATS == {DEFAULT_OUTPUT_FORMAT, Svg}

----------------------------------------------------------------------------
(* The file system at startup *)

JavaBin == <<"/", "b", "/", "j", "a", "v", "a">>
JarFile == <<"/", "l", "/", "p", ".", "j", "a", "r">>
OutDir == <<"/", "o">>
NoDir == <<"/", "n">>

\* os.path.isfile / os.path.isdir
IsFile(p) == p \in {JavaBin, JarFile}
IsDir(p) == p \in {Cwd, OutDir}

\* A configuration file: missing, present and not JSON, or a JSON object
Missing == [state |-> "missing", doc |-> <<>>]
Malformed == [state |-> "malformed", doc |-> <<>>]
Json(d) == [state |-> "json", doc |-> d]

----------------------------------------------------------------------------
(* Configuration resolution *)

NoExc == [type |-> "none", text |-> "", arg |-> <<>>]
RuntimeError(text, arg) == [type |-> "RuntimeError", text |-> text, arg |-> arg]
KeyError(key) == [type |-> "KeyError", text |-> key, arg |-> <<>>]
OSError(text) == [type |-> "OSError", text |-> text, arg |-> <<>>]

NoConfig == [set |-> FALSE, dict |-> <<>>]
SomeConfig(d) == [set |-> TRUE, dict |-> d]

None == [isNone |-> TRUE, dict |-> <<>>]
Dict(d) == [isNone |-> FALSE, dict |-> d]

\* dict.update: keys of u are overwritten or added, every other key is kept
UpdateKeepsOld(d, u) ==
    [k \in DOMAIN d \cup DOMAIN u |-> IF k \in DOMAIN d THEN d[k] ELSE u[k]]
Update(d, u) ==
    [k \in DOMAIN d \cup DOMAIN u |-> IF k \in DOMAIN u THEN u[k] ELSE d[k]]

\* config_filenames, in the order the loop reads them
ConfigFilenames == <<HomeFile, CwdFile>>

NotJson == "configuration file is not a valid json file"

\* The loop over config_filenames of Configurator.__init__
RECURSIVE LoadFiles(_, _, _)
LoadFiles(configuration, filenames, fs) ==
    IF filenames = <<>> THEN [exc |-> NoExc, dict |-> configuration]
    ELSE LET filename == Head(filenames) IN
         IF fs[filename].state = "missing"
         THEN LoadFiles(configuration, Tail(filenames), fs)
         ELSE IF fs[filename].state = "malformed"
         THEN [exc |-> RuntimeError(NotJson, filename), dict |-> <<>>]
         ELSE LoadFiles(Update(configuration, fs[filename].doc), Tail(filenames), fs)

\* Configurator.__init__(argopts)
ConfiguratorSkipsFiles(fs, opts) ==
    [exc |-> NoExc,
     dict |-> IF opts.isNone THEN DEFAULT_CONFIGURATION("Configurator")
              ELSE Update(DEFAULT_CONFIGURATION("Configurator"), opts.dict)]
Configurator(fs, opts) ==
    LET loaded == LoadFiles(DEFAULT_CONFIGURATION("Configurator"), ConfigFilenames, fs) IN
    IF loaded.exc.type # "none" THEN loaded
    ELSE IF opts.isNone THEN loaded
    ELSE [exc |-> NoExc, dict |-> Update(loaded.dict, opts.dict)]

\* configuration(options) of the other revision: the file named by
\* options['config'] when it exists, the options otherwise
configuration(fs, options) ==
    LET filename == options["config"] IN
    IF fs[filename].state = "missing" THEN [exc |-> NoExc, dict |-> options]
    ELSE IF fs[filename].state = "malformed"
    THEN [exc |-> RuntimeError(NotJson, filename), dict |-> <<>>]
    ELSE [exc |-> NoExc, dict |-> fs[filename].doc]

----------------------------------------------------------------------------
(* Watcher: accessors and construction *)

DefaultOf(v, key) == DEFAULT_CONFIGURATION(v)[key]

\* The Watcher properties: a plain lookup in one revision, a lookup with a
\* fallback to the default in the other
HasKeyPlainLookup(v, cfg, key) == key \in DOMAIN cfg
HasKey(v, cfg, key) == v = "configuration" \/ key \in DOMAIN cfg
Get(v, cfg, key) ==
    IF key \in DOMAIN cfg THEN cfg[key] ELSE DefaultOf(v, key)

\* The five checks of Watcher.__init__, in order
Checks == <<"java", "plantuml", "watchdir", "outputdir", "format">>

Passes(key, value) ==
    CASE key = "java" -> IsFile(value)
      [] key = "plantuml" -> IsFile(value)
      [] key = "watchdir" -> IsDir(value)
      [] key = "outputdir" -> IsDir(value)
      [] key = "format" -> value \in VALID_OUTPUT_FORMATS

\* The messages; one revision says "binary file" and "jar file"
CheckText(v, key) ==
    CASE key = "java" ->
           IF v = "Configurator" THEN "cannot find Java Virtual Machine binary"
           ELSE "cannot find Java Virtual Machine binary file"
      [] key = "plantuml" ->
           IF v = "Configurator" THEN "cannot find PlantUML Jar"
           ELSE "cannot find PlantUML jar file"
      [] key = "watchdir" -> "cannot find watch directory"
      [] key = "outputdir" -> "cannot find output directory"
      [] key = "format" -> "cannot handle output format"

RECURSIVE FirstFailure(_, _, _)
FirstFailure(v, cfg, checks) ==
    IF checks = <<>> THEN NoExc
    ELSE LET key == Head(checks) IN
         IF ~HasKey(v, cfg, key) THEN KeyError(key)
         ELSE IF ~Passes(key, Get(v, cfg, key))
         THEN RuntimeError(CheckText(v, key), Get(v, cfg, key))
         ELSE FirstFailure(v, cfg, Tail(checks))

\* Watcher.__init__(configuration): the exception it raises, if any
ValidateSkipsDirs(v, cfg) == FirstFailure(v, cfg, <<"java", "plantuml", "format">>)
Validate(v, cfg) == FirstFailure(v, cfg, Checks)

NoWatcher == [made |-> FALSE, cfg |-> <<>>]
NoRender == [state |-> "idle", filename |-> <<>>]

----------------------------------------------------------------------------
(* The handler: filter, command, output path, reports *)

Dot == <<".">>

\* A line printed on stdout or stderr
Line(text, code, arg) == [text |-> text, code |-> code, arg |-> arg]

\* "{java} -jar {plantuml} {verbose} {format} {srcfile}"
CommandTemplateNoJar ==
    <<"{java}", " ", "{plantuml}", " ", "{verbose}", " ", "{format}", " ", "{srcfile}">>
CommandTemplate ==
    <<"{java}", " ", "-", "j", "a", "r", " ", "{plantuml}", " ", "{verbose}", " ",
      "{format}", " ", "{srcfile}">>

\* plantuml_command(filename): the command line handed to subprocess.call
plantuml_command(v, cfg, filename) ==
    Format(CommandTemplate,
           [x \in {"{java}", "{plantuml}", "{verbose}", "{format}", "{srcfile}"} |->
              CASE x = "{java}" -> Get(v, cfg, "java")
                [] x = "{plantuml}" -> Get(v, cfg, "plantuml")
                [] x = "{verbose}" -> IF Get(v, cfg, "verbose") THEN <<"-", "v">> ELSE <<>>
                [] x = "{format}" ->
                     Format(<<"-", "t", "{}">>, [y \in {"{}"} |-> Get(v, cfg, "format")])
                [] x = "{srcfile}" -> filename])

\* extension = "." + self._watcher.extension
DotExtension(v, cfg) == Dot \o Get(v, cfg, "extension")

\* FileSystemEventHandler.dispatch calls on_modified for events of type
\* "modified" (of files and of directories) and the inherited no-op
\* handlers for every other type; on_modified then tests the suffix
AcceptsAnyType(v, cfg, event) == EndsWith(event.path, DotExtension(v, cfg))
Accepts(v, cfg, event) ==
    /\ event.type = "modified"
    /\ EndsWith(event.path, DotExtension(v, cfg))

\* genfile = filename.replace(extension, ".{}".format(self._watcher.format))
Genfile(v, cfg, filename) ==
    Replace(filename, DotExtension(v, cfg), Dot \o Get(v, cfg, "format"))

\* os.path.join(outputdir, filename)
PathJoin(a, b) ==
    IF b # <<>> /\ Head(b) = "/" THEN b
    ELSE IF a = <<>> \/ a[Len(a)] = "/" THEN a \o b
    ELSE a \o <<"/">> \o b

Processing(v, cfg, filename) ==
    Line("processing model source: ", 0, PathJoin(Get(v, cfg, "outputdir"), filename))

\* What on_modified prints once subprocess.call has returned or raised
Report(v, cfg, filename, outcome) ==
    IF outcome.kind = "oserror" THEN Line("error: ", 0, outcome.message)
    ELSE IF outcome.code = 0
    THEN Line("generated model diagram: ", 0, Genfile(v, cfg, filename))
    ELSE Line("error: exit code {} processing file ", outcome.code, filename)

Exited(code) == [kind |-> "exit", code |-> code, message |-> <<>>]
LaunchFailed(message) == [kind |-> "oserror", code |-> 0, message |-> message]

\* What Watcher.run / Watcher.watch prints before it starts the observer
Banner(v, cfg) ==
    <<Line("watching directory {0} for files with extension '{1}'", 0,
           Format(<<"{0}", "'", "{1}", "'">>,
                  [x \in {"{0}", "{1}"} |-> IF x = "{0}" THEN Get(v, cfg, "watchdir")
                                            ELSE Get(v, cfg, "extension")]))>>
    \o (IF Get(v, cfg, "verbose")
        THEN <<Line("using plantuml: ", 0, Get(v, cfg, "plantuml"))>>
        ELSE <<>>)

----------------------------------------------------------------------------
(* Bounded inputs *)

Vals(key) ==
    CASE key = "verbose" -> BOOLEAN
      [] key = "java" -> {DEFAULT_JAVA, JavaBin}
      [] key = "plantuml" -> {DEFAULT_PLANTUML("Configurator"), JarFile}
      [] key = "watchdir" -> {Cwd, NoDir}
      [] key = "extension" -> {DEFAULT_WATCH_EXTENSION, <<"t", "x", "t">>}
      [] key = "outputdir" -> {OutDir, NoDir}
      [] key = "format" -> {DEFAULT_OUTPUT_FORMAT, Svg, Gif}

\* Two complete documents that pass validation
FullDocA ==
    [verbose |-> TRUE, java |-> JavaBin, plantuml |-> JarFile, watchdir |-> Cwd,
     extension |-> DEFAULT_WATCH_EXTENSION, outputdir |-> OutDir, format |-> Svg]
FullDocB ==
    [verbose |-> FALSE, java |-> JavaBin, plantuml |-> JarFile, watchdir |-> Cwd,
     extension |-> <<"t", "x", "t">>, outputdir |-> Cwd, format |-> DEFAULT_OUTPUT_FORMAT]

\* The documents a file or the caller may hold: empty, one key, or complete
Docs ==
    {<<>>, FullDocA, FullDocB}
    \cup UNION {{[k \in {key} |-> val] : val \in Vals(key)} : key \in Keys}

FileStates == {Missing, Malformed} \cup {Json(d) : d \in Docs}

\* The unused parts of the state
Idle ==
    /\ cli = <<>>
    /\ command = <<>>
    /\ stderr = <<>>
    /\ status = -1
    /\ stdout = <<>>
    /\ observer = "none"
    /\ queue = <<>>
    /\ render = NoRender
    /\ invocations = <<>>
    /\ outcomes = <<>>
    /\ handled = <<>>
    /\ fsevents = "none"
    /\ budget = 0

\* A caller builds a configuration and a Watcher from it, as main does, with
\* any argopts
InitResolve ==
    /\ variant \in Variants
    /\ files \in [{HomeFile, CwdFile} -> FileStates]
    /\ \E d \in Docs, none \in BOOLEAN, filename \in {HomeFile, CwdFile} :
          argopts = IF variant = "Configurator"
                    THEN (IF none THEN None ELSE Dict(d))
                    ELSE Dict(Update(d, [k \in {"config"} |-> filename]))
    /\ pc = "resolve"
    /\ config = NoConfig
    /\ watcher = NoWatcher
    /\ exc = NoExc
    /\ Idle

----------------------------------------------------------------------------
(* Startup actions *)

Resolved(result) ==
    IF result.exc.type # "none"
    THEN /\ exc' = result.exc
         /\ pc' = "raised"
         /\ UNCHANGED config
    ELSE /\ config' = SomeConfig(result.dict)
         /\ pc' = "watcher_init"
         /\ UNCHANGED exc

\* configurator = Configurator(args)
Configurator_init ==
    /\ pc = "resolve"
    /\ variant = "Configurator"
    /\ Resolved(Configurator(files, argopts))
    /\ UNCHANGED <<variant, files, cli, command, argopts, watcher, stderr, status,
                   stdout, observer, queue, render, invocations, outcomes, handled,
                   fsevents, budget>>

\* config = configuration(vars(args))
configuration_call ==
    /\ pc = "resolve"
    /\ variant = "configuration"
    /\ Resolved(configuration(files, argopts.dict))
    /\ UNCHANGED <<variant, files, cli, command, argopts, watcher, stderr, status,
                   stdout, observer, queue, render, invocations, outcomes, handled,
                   fsevents, budget>>

\* watcher = Watcher(configurator.configuration)
Watcher_init ==
    /\ pc = "watcher_init"
    /\ LET failure == Validate(variant, config.dict) IN
       IF failure.type # "none"
       THEN /\ exc' = failure
            /\ pc' = "raised"
            /\ UNCHANGED watcher
       ELSE /\ watcher' = [made |-> TRUE, cfg |-> config.dict]
            /\ pc' = "constructed"
            /\ UNCHANGED exc
    /\ UNCHANGED <<variant, files, cli, command, argopts, config, stderr, status,
                   stdout, observer, queue, render, invocations, outcomes, handled,
                   fsevents, budget>>

NextResolve == Configurator_init \/ configuration_call \/ Watcher_init

SpecResolve == InitResolve /\ [][NextResolve]_vars

----------------------------------------------------------------------------
(* main *)

MaxEvents == 3
MaxExitCode == 1

ExitCodes == 0..MaxExitCode
OSErrors == {<<"E", "N", "O", "E", "N", "T">>, <<"E", "A", "C", "C", "E", "S">>}

Event(type, path, dir) == [type |-> type, path |-> path, is_directory |-> dir]

DiagramPu == <<"d", ".", "p", "u">>
FooPub == <<"f", "o", "o", ".", "p", "u", "b">>

\* The notifications of a run of main
SketchPu == <<"s", ".", "p", "u">>
UpperPu == <<"d", ".", "P", "U">>
NestedPu == <<"a", ".", "p", "u", "/", "b", ".", "p", "u">>
PubsPu == <<"m", ".", "p", "u", "b", "s", "/", "x", ".", "p", "u">>
NoteTxt == <<"n", ".", "t", "x", "t">>
NoDot == <<"d", "p", "u">>
AbsPu == <<"/", "w", "/", "d", ".", "p", "u">>

\* The notifications of a run of main
MainEvents ==
    {Event("modified", DiagramPu, FALSE), Event("modified", SketchPu, FALSE),
     Event("created", DiagramPu, FALSE)}

\* The notifications a single call of the handler is tried on
HandlerPaths == {DiagramPu, FooPub, UpperPu, NestedPu, PubsPu, NoteTxt, NoDot, AbsPu}
HandlerEvents ==
    {Event(type, path, dir) :
        type \in {"modified", "created", "deleted"}, path \in HandlerPaths,
        dir \in BOOLEAN}

FsEvents(which) ==
    CASE which = "main" -> MainEvents
      [] which = "handler" -> HandlerEvents
      [] OTHER -> {}

\* The configurations a Watcher is built from for these calls
HandlerConfigs ==
    {[FullDocA EXCEPT !.verbose = verbose, !.extension = extension,
                      !.outputdir = outputdir, !.format = format] :
        verbose \in BOOLEAN, extension \in Vals("extension"),
        outputdir \in {Cwd, OutDir}, format \in VALID_OUTPUT_FORMATS}

\* The defaults of the argparse parser (store_true gives False)
ArgparseDefaults(v) ==
    IF v = "Configurator" THEN DEFAULT_CONFIGURATION(v)
    ELSE Update(DEFAULT_CONFIGURATION(v), [k \in {"config"} |-> CwdFile])

GoodFlags == [java |-> JavaBin, plantuml |-> JarFile, verbose |-> TRUE]
\* Flags on the command line: none, enough to pass validation, a bad watchdir
CliDocs == {<<>>, GoodFlags, Update(GoodFlags, [k \in {"watchdir"} |-> NoDir])}

MainFileStates == {Missing, Malformed, Json(FullDocA)}

Commands == {<<>>, <<"watch">>, <<"configure">>, <<"watch", "configure">>}

Init ==
    /\ variant \in Variants
    /\ files \in [{HomeFile, CwdFile} -> MainFileStates]
    \* configuration() reads no file of the home directory
    /\ variant = "configuration" => files[HomeFile] = Missing
    /\ cli \in CliDocs
    \* the Configurator revision's parser takes no positional argument
    /\ command \in IF variant = "Configurator" THEN {<<>>} ELSE Commands
    /\ pc = "main"
    /\ argopts = None
    /\ config = NoConfig
    /\ watcher = NoWatcher
    /\ exc = NoExc
    /\ stderr = <<>>
    /\ status = -1
    /\ stdout = <<>>
    /\ observer = "none"
    /\ queue = <<>>
    /\ render = NoRender
    /\ invocations = <<>>
    /\ outcomes = <<>>
    /\ handled = <<>>
    /\ fsevents = "main"
    /\ budget = MaxEvents

\* args = vars(parser.parse_args()) / parser.parse_known_args(), and the
\* choice of the command
parse_args ==
    /\ pc = "main"
    /\ argopts' = Dict(Update(ArgparseDefaults(variant), cli))
    /\ command' = IF command = <<>> /\ variant = "configuration" THEN <<"watch">> ELSE command
    /\ pc' = IF variant = "Configurator" THEN "resolve"
             ELSE IF Len(command') > 1 \/ command'[1] \notin {"watch", "configure"}
                  THEN "print_help"
             ELSE IF command'[1] = "watch" THEN "resolve"
             ELSE "configure"
    /\ UNCHANGED <<variant, files, cli, config, watcher, exc, stderr, status, stdout,
                   observer, queue, render, invocations, outcomes, handled, fsevents,
                   budget>>

\* parser.print_help(), after which main returns
print_help ==
    /\ pc = "print_help"
    /\ stdout' = Append(stdout, Line("usage: ", 0, <<>>))
    /\ pc' = "exit"
    /\ status' = 0
    /\ UNCHANGED <<variant, files, cli, command, argopts, config, watcher, exc, stderr,
                   observer, queue, render, invocations, outcomes, handled, fsevents,
                   budget>>

\* configure(): main calls it without the argument its signature requires
configure ==
    /\ pc = "configure"
    /\ exc' = [type |-> "TypeError", text |-> "configure() takes exactly 1 argument",
               arg |-> <<>>]
    /\ pc' = "raised"
    /\ UNCHANGED <<variant, files, cli, command, argopts, config, watcher, stderr,
                   status, stdout, observer, queue, render, invocations, outcomes,
                   handled, fsevents, budget>>

\* except Exception as err: sys.exit("error: {}".format(err))
main_except ==
    /\ pc = "raised"
    /\ stderr' = Append(stderr, Line("error: " \o exc.text, 0, exc.arg))
    /\ status' = 1
    /\ pc' = "exit"
    /\ UNCHANGED <<variant, files, cli, command, argopts, config, watcher, exc, stdout,
                   observer, queue, render, invocations, outcomes, handled, fsevents,
                   budget>>

----------------------------------------------------------------------------
(* Watcher.run / Watcher.watch *)

\* The prints, Observer() and observer.schedule(event_handler, path=watchdir)
Watcher_run ==
    /\ pc = "constructed"
    /\ stdout' = stdout \o Banner(variant, watcher.cfg)
    /\ observer' = "scheduled"
    /\ pc' = "scheduled"
    /\ UNCHANGED <<variant, files, cli, command, argopts, config, watcher, exc, stderr,
                   status, queue, render, invocations, outcomes, handled, fsevents,
                   budget>>

\* observer.start()
observer_start ==
    /\ pc = "scheduled"
    /\ observer' = "started"
    /\ pc' = "started"
    /\ UNCHANGED <<variant, files, cli, command, argopts, config, watcher, exc, stderr,
                   status, stdout, queue, render, invocations, outcomes, handled,
                   fsevents, budget>>

\* Entering the try block and its loop of time.sleep(1)
enter_loop ==
    /\ pc = "started"
    /\ pc' = "sleeping"
    /\ UNCHANGED <<variant, files, cli, command, argopts, config, watcher, exc, stderr,
                   status, stdout, observer, queue, render, invocations, outcomes,
                   handled, fsevents, budget>>

\* KeyboardInterrupt with the child process terminated by the handler of the
\* interrupt: the render in flight is dropped without a result
KeyboardInterruptKillsRender ==
    /\ pc = "sleeping"
    /\ observer' = "stopped"
    /\ render' = NoRender
    /\ pc' = "joining"
    /\ UNCHANGED <<variant, files, cli, command, argopts, config, watcher, exc, stderr,
                   status, stdout, queue, invocations, outcomes, handled,
                   fsevents, budget>>

\* except KeyboardInterrupt: observer.stop()
KeyboardInterrupt ==
    /\ pc = "sleeping"
    /\ observer' = "stopped"
    /\ pc' = "joining"
    /\ UNCHANGED <<variant, files, cli, command, argopts, config, watcher, exc, stderr,
                   status, stdout, queue, render, invocations, outcomes, handled,
                   fsevents, budget>>

\* observer.join() returns once the observer thread has left its handler;
\* run and main then return
observer_join ==
    /\ pc = "joining"
    /\ render.state = "idle"
    /\ observer' = "joined"
    /\ pc' = "exit"
    /\ status' = 0
    /\ UNCHANGED <<variant, files, cli, command, argopts, config, watcher, exc, stderr,
                   stdout, queue, render, invocations, outcomes, handled, fsevents,
                   budget>>

\* A KeyboardInterrupt once the observer exists but outside the try block
\* is no Exception: nothing catches it, the interpreter prints the traceback
\* and the process ends with its daemon observer thread
KeyboardInterrupt_uncaught ==
    /\ pc \in {"scheduled", "started", "joining"}
    /\ stderr' = Append(stderr, Line("KeyboardInterrupt", 0, <<>>))
    /\ status' = 1
    /\ pc' = "exit"
    /\ UNCHANGED <<variant, files, cli, command, argopts, config, watcher, exc, stdout,
                   observer, queue, render, invocations, outcomes, handled, fsevents,
                   budget>>

----------------------------------------------------------------------------
(* The observer thread and the file system *)

\* The file system reports a change under the watched directory
Notify ==
    /\ status = -1
    /\ observer = "started"
    /\ budget > 0
    /\ \E event \in FsEvents(fsevents) : queue' = Append(queue, event)
    /\ budget' = budget - 1
    /\ UNCHANGED <<variant, files, cli, command, pc, argopts, config, watcher, exc,
                   stderr, status, stdout, observer, render, invocations, outcomes,
                   handled, fsevents>>

\* Dispatch without the except OSError clause: the exception leaves the
\* handler and ends the observer thread
DispatchOSErrorEscapes ==
    /\ status = -1
    /\ observer = "started"
    /\ render.state = "idle"
    /\ queue # <<>>
    /\ LET event == Head(queue)
           filename == event.path
           cmd == plantuml_command(variant, watcher.cfg, filename)
       IN /\ queue' = Tail(queue)
          /\ handled' = Append(handled, event)
          /\ IF Accepts(variant, watcher.cfg, event)
             THEN /\ invocations' = Append(invocations,
                                           [command |-> cmd, filename |-> filename])
                  /\ \/ \E message \in OSErrors :
                          /\ outcomes' = Append(outcomes, LaunchFailed(message))
                          /\ stdout' = Append(stdout,
                                              Processing(variant, watcher.cfg, filename))
                          /\ observer' = "dead"
                          /\ UNCHANGED render
                     \/ /\ render' = [state |-> "running", filename |-> filename]
                        /\ stdout' = Append(stdout,
                                            Processing(variant, watcher.cfg, filename))
                        /\ UNCHANGED <<outcomes, observer>>
             ELSE UNCHANGED <<invocations, outcomes, stdout, render, observer>>
    /\ UNCHANGED <<variant, files, cli, command, pc, argopts, config, watcher, exc,
                   stderr, status, fsevents, budget>>

\* Dispatch with subprocess.Popen in place of subprocess.call: the handler
\* does not wait for the child process, so the observer thread takes the next
\* notification while the child still runs
DispatchWithoutWaiting ==
    /\ status = -1
    /\ observer = "started"
    /\ queue # <<>>
    /\ LET event == Head(queue)
           filename == event.path
           cmd == plantuml_command(variant, watcher.cfg, filename)
       IN /\ queue' = Tail(queue)
          /\ handled' = Append(handled, event)
          /\ IF Accepts(variant, watcher.cfg, event)
             THEN /\ invocations' = Append(invocations,
                                           [command |-> cmd, filename |-> filename])
                  /\ \/ \E message \in OSErrors :
                          /\ outcomes' = Append(outcomes, LaunchFailed(message))
                          /\ stdout' = stdout \o
                                <<Processing(variant, watcher.cfg, filename),
                                  Report(variant, watcher.cfg, filename,
                                         LaunchFailed(message))>>
                          /\ UNCHANGED render
                     \/ /\ render' = [state |-> "running", filename |-> filename]
                        /\ stdout' = Append(stdout,
                                            Processing(variant, watcher.cfg, filename))
                        /\ UNCHANGED outcomes
             ELSE UNCHANGED <<invocations, outcomes, stdout, render>>
    /\ UNCHANGED <<variant, files, cli, command, pc, argopts, config, watcher, exc,
                   stderr, status, observer, fsevents, budget>>

\* The observer thread takes the next notification and dispatches it:
\* on_modified up to the return of subprocess.call when the launch fails,
\* up to the start of the child process otherwise
Dispatch ==
    /\ status = -1
    /\ observer = "started"
    /\ render.state = "idle"
    /\ queue # <<>>
    /\ LET event == Head(queue)
           filename == event.path
           cmd == plantuml_command(variant, watcher.cfg, filename)
       IN /\ queue' = Tail(queue)
          /\ handled' = Append(handled, event)
          /\ IF Accepts(variant, watcher.cfg, event)
             THEN /\ invocations' = Append(invocations,
                                           [command |-> cmd, filename |-> filename])
                  /\ \/ \E message \in OSErrors :
                          /\ outcomes' = Append(outcomes, LaunchFailed(message))
                          /\ stdout' = stdout \o
                                <<Processing(variant, watcher.cfg, filename),
                                  Report(variant, watcher.cfg, filename,
                                         LaunchFailed(message))>>
                          /\ UNCHANGED render
                     \/ /\ render' = [state |-> "running", filename |-> filename]
                        /\ stdout' = Append(stdout,
                                            Processing(variant, watcher.cfg, filename))
                        /\ UNCHANGED outcomes
             ELSE UNCHANGED <<invocations, outcomes, stdout, render>>
    /\ UNCHANGED <<variant, files, cli, command, pc, argopts, config, watcher, exc,
                   stderr, status, observer, fsevents, budget>>

\* ProcessExit with subprocess.check_call in place of subprocess.call: a
\* non-zero exit raises CalledProcessError, which leaves the handler and
\* ends the observer thread
ProcessExitCheckCall ==
    /\ status = -1
    /\ render.state = "running"
    /\ \E code \in ExitCodes :
          /\ outcomes' = Append(outcomes, Exited(code))
          /\ IF code = 0
             THEN /\ stdout' = Append(stdout, Report(variant, watcher.cfg,
                                                     render.filename, Exited(code)))
                  /\ UNCHANGED observer
             ELSE /\ observer' = "dead"
                  /\ UNCHANGED stdout
    /\ render' = NoRender
    /\ UNCHANGED <<variant, files, cli, command, pc, argopts, config, watcher, exc,
                   stderr, status, queue, invocations, handled, fsevents, budget>>

\* ProcessExit with a retry: a render that exits non-zero is reported and
\* invoked once more, without a new notification
ProcessExitRetries ==
    /\ status = -1
    /\ render.state = "running"
    /\ \E code \in ExitCodes :
          /\ outcomes' = Append(outcomes, Exited(code))
          /\ stdout' = Append(stdout, Report(variant, watcher.cfg, render.filename,
                                             Exited(code)))
          /\ IF code = 0 \/ Len(invocations) > MaxEvents
             THEN render' = NoRender /\ UNCHANGED invocations
             ELSE /\ invocations' = Append(invocations, invocations[Len(invocations)])
                  /\ UNCHANGED render
    /\ UNCHANGED <<variant, files, cli, command, pc, argopts, config, watcher, exc,
                   stderr, status, observer, queue, handled, fsevents, budget>>

\* The child process ends; subprocess.call returns its exit code and
\* on_modified prints the result
ProcessExit ==
    /\ status = -1
    /\ render.state = "running"
    /\ \E code \in ExitCodes :
          /\ outcomes' = Append(outcomes, Exited(code))
          /\ stdout' = Append(stdout, Report(variant, watcher.cfg, render.filename,
                                             Exited(code)))
    /\ render' = NoRender
    /\ UNCHANGED <<variant, files, cli, command, pc, argopts, config, watcher, exc,
                   stderr, status, observer, queue, invocations, handled, fsevents,
                   budget>>

Next ==
    \/ parse_args \/ print_help \/ configure \/ main_except
    \/ Configurator_init \/ configuration_call \/ Watcher_init
    \/ Watcher_run \/ observer_start \/ enter_loop
    \/ KeyboardInterrupt \/ observer_join \/ KeyboardInterrupt_uncaught
    \/ Notify \/ Dispatch \/ ProcessExit

Spec == Init /\ [][Next]_vars

\* A run of main in which a render in flight terminates and observer.join()
\* returns once the observer thread has ended
SpecShutdown == Spec /\ WF_vars(ProcessExit) /\ WF_vars(observer_join)

----------------------------------------------------------------------------
(* One notification handled by a running Watcher built from any valid
   configuration: watcher = Watcher(cfg); watcher.run() *)

InitHandler ==
    /\ variant \in Variants
    /\ files = [f \in {HomeFile, CwdFile} |-> Missing]
    /\ cli = <<>>
    /\ command = <<>>
    /\ argopts = None
    /\ \E cfg \in HandlerConfigs
                  \cup {[java |-> JavaBin, plantuml |-> JarFile]} :
          \* only the accessors of one revision fall back to the defaults
          /\ DOMAIN cfg # Keys => variant = "configuration"
          /\ config = SomeConfig(cfg)
          /\ watcher = [made |-> TRUE, cfg |-> cfg]
          /\ stdout = Banner(variant, cfg)
    /\ pc = "sleeping"
    /\ exc = NoExc
    /\ stderr = <<>>
    /\ status = -1
    /\ observer = "started"
    /\ queue = <<>>
    /\ render = NoRender
    /\ invocations = <<>>
    /\ outcomes = <<>>
    /\ handled = <<>>
    /\ fsevents = "handler"
    /\ budget = 1

NextHandler == Notify \/ Dispatch \/ ProcessExit

SpecHandler == InitHandler /\ [][NextHandler]_vars

----------------------------------------------------------------------------
(* A caller that keeps the Watcher and calls run() / watch() on it again:
   watcher = Watcher(cfg); watcher.run(); watcher.run() *)

MaxRuns == 2

IsBanner(line) == line.text = "watching directory {0} for files with extension '{1}'"

\* How many times run() was entered
Runs == Len(SelectSeq(stdout, IsBanner))

InitCaller ==
    /\ variant \in Variants
    /\ files = [f \in {HomeFile, CwdFile} |-> Missing]
    /\ cli = <<>>
    /\ command = <<>>
    /\ argopts = None
    /\ \E cfg \in HandlerConfigs :
          /\ config = SomeConfig(cfg)
          /\ watcher = [made |-> TRUE, cfg |-> cfg]
    /\ pc = "constructed"
    /\ exc = NoExc
    /\ stderr = <<>>
    /\ status = -1
    /\ stdout = <<>>
    /\ observer = "none"
    /\ queue = <<>>
    /\ render = NoRender
    /\ invocations = <<>>
    /\ outcomes = <<>>
    /\ handled = <<>>
    /\ fsevents = "main"
    /\ budget = 1

\* observer.join() returns and run() returns to its caller, which holds the
\* Watcher as it held it before the call; the observer of this run and its
\* queue are local to the call and gone
run_returns ==
    /\ pc = "joining"
    /\ render.state = "idle"
    /\ observer' = "joined"
    /\ queue' = <<>>
    /\ IF Runs < MaxRuns
       THEN pc' = "constructed" /\ UNCHANGED status
       ELSE pc' = "exit" /\ status' = 0
    /\ UNCHANGED <<variant, files, cli, command, argopts, config, watcher, exc, stderr,
                   stdout, render, invocations, outcomes, handled, fsevents, budget>>

NextCaller ==
    \/ Watcher_run \/ observer_start \/ enter_loop \/ KeyboardInterrupt
    \/ run_returns
    \/ Notify \/ Dispatch \/ ProcessExit

SpecCaller == InitCaller /\ [][NextCaller]_vars

----------------------------------------------------------------------------
(* Claims about configuration resolution and validation (SpecResolve) *)

FileDefines(filename, key) ==
    files[filename].state = "json" /\ key \in DOMAIN files[filename].doc

CallerDefines(key) == ~argopts.isNone /\ key \in DOMAIN argopts.dict

\* The value of the highest-precedence source that defines the key:
\* defaults < global (home) file < local (working-directory) file < caller
Precedence(key) ==
    IF CallerDefines(key) THEN argopts.dict[key]
    ELSE IF FileDefines(CwdFile, key) THEN files[CwdFile].doc[key]
    ELSE IF FileDefines(HomeFile, key) THEN files[HomeFile].doc[key]
    ELSE DefaultOf(variant, key)

\* The value the Watcher reads for the key from the resolved configuration
Effective(key) == Get(variant, config.dict, key)

\* C1 as stated: whichever resolver runs, every key resolves to the value of
\* the highest-precedence source defining it (defaults < global file < local
\* file < caller overrides), and to the default when no source defines it.
C1_PrecedenceEveryResolver ==
    config.set => \A key \in Keys : Effective(key) = Precedence(key)

\* C1, amended: Configurator.__init__ resolves every key to the value of the
\* highest-precedence source defining it (defaults < global file < local file
\* < caller overrides). configuration() merges nothing: when the file named
\* by options['config'] exists, its document alone is the configuration (the
\* caller's options are dropped); when it does not exist, the caller's
\* options are the configuration; either way a key the configuration lacks
\* reads as the default.
C1_MergePrecedence ==
    config.set =>
        IF variant = "Configurator"
        THEN /\ Keys \subseteq DOMAIN config.dict
             /\ \A key \in Keys : config.dict[key] = Precedence(key)
        ELSE LET filename == argopts.dict["config"] IN
             \A key \in Keys :
                Effective(key) =
                    IF files[filename].state = "json"
                    THEN (IF key \in DOMAIN files[filename].doc
                          THEN files[filename].doc[key]
                          ELSE DefaultOf(variant, key))
                    ELSE (IF key \in DOMAIN argopts.dict
                          THEN argopts.dict[key]
                          ELSE DefaultOf(variant, key))

\* The local file overrides the global file on a key both define, and the
\* caller leaves that key alone
C1_Witness ==
    /\ variant = "Configurator"
    /\ config.set
    /\ \E key \in Keys :
          /\ FileDefines(HomeFile, key) /\ FileDefines(CwdFile, key)
          /\ ~CallerDefines(key)
          /\ files[HomeFile].doc[key] # files[CwdFile].doc[key]
          /\ config.dict[key] = files[CwdFile].doc[key]
          /\ config.dict[key] # DefaultOf(variant, key)

\* The five prerequisites of a Watcher, on the values it reads
AllValid(v, cfg) ==
    /\ IsFile(Get(v, cfg, "java"))
    /\ IsFile(Get(v, cfg, "plantuml"))
    /\ IsDir(Get(v, cfg, "watchdir"))
    /\ IsDir(Get(v, cfg, "outputdir"))
    /\ Get(v, cfg, "format") \in {DEFAULT_OUTPUT_FORMAT, Svg}

Validated == config.set /\ pc \in {"constructed", "raised"}

\* C9: constructing a Watcher succeeds exactly when java and plantuml are
\* existing files, watchdir and outputdir existing directories and format png
\* or svg; otherwise it raises an error that names an offending field and its
\* value, and no Watcher is returned.
C9_ValidationAllOrNothing ==
    Validated =>
        /\ watcher.made <=> AllValid(variant, config.dict)
        /\ watcher.made => pc = "constructed" /\ watcher.cfg = config.dict
        /\ ~watcher.made =>
              /\ pc = "raised"
              /\ exc.type = "RuntimeError"
              /\ \E key \in {"java", "plantuml", "watchdir", "outputdir", "format"} :
                    /\ ~Passes(key, Effective(key))
                    /\ exc.text = CheckText(variant, key)
                    /\ exc.arg = Effective(key)

\* Only the watch directory is wrong, and the error names it
C9_Witness ==
    /\ Validated
    /\ ~watcher.made
    /\ IsFile(Effective("java")) /\ IsFile(Effective("plantuml"))
    /\ Effective("watchdir") = NoDir
    /\ exc.text = "cannot find watch directory"
    /\ exc.arg = NoDir

\* The files a resolver reads, in order
FilesRead ==
    IF variant = "Configurator" THEN ConfigFilenames ELSE <<argopts.dict["config"]>>

FirstMalformed ==
    LET bad == {i \in 1..Len(FilesRead) : files[FilesRead[i]].state = "malformed"} IN
    IF bad = {} THEN 0 ELSE CHOOSE i \in bad : \A j \in bad : i <= j

\* The configuration with every missing file replaced by an empty document
WithEmptyDocuments ==
    LET fs == [f \in DOMAIN files |->
                 IF files[f].state = "missing" THEN Json(<<>>) ELSE files[f]] IN
    IF variant = "Configurator" THEN Configurator(fs, argopts).dict
    ELSE IF files[argopts.dict["config"]].state = "missing" THEN argopts.dict
    ELSE configuration(fs, argopts.dict).dict

----------------------------------------------------------------------------
(* Claims about the handler (SpecHandler) *)

Extension == Get(variant, watcher.cfg, "extension")
OutputFormat == Get(variant, watcher.cfg, "format")

IsResult(line) ==
    line.text \in {"generated model diagram: ", "error: exit code {} processing file ",
                   "error: "}

\* The result reports among the printed lines, in order
ResultLines == SelectSeq(stdout, IsResult)

\* The path is some prefix followed by "." and the extension
SuffixMatch(path, extension) ==
    \E n \in 0..Len(path) : path = SubSeq(path, 1, n) \o <<".">> \o extension

InScope(event) == event.type = "modified" /\ SuffixMatch(event.path, Extension)

\* C2: a notification leads to a render invocation if and only if its kind is
\* "modified" and its path ends with "." + extension, compared exactly; any
\* other notification causes no invocation and prints nothing.
C2_ChangeFiltering ==
    watcher.made =>
        LET accepted == SelectSeq(handled, InScope) IN
        /\ Len(invocations) = Len(accepted)
        /\ \A i \in 1..Len(invocations) : invocations[i].filename = accepted[i].path
        /\ Len(outcomes) <= Len(invocations)
        /\ Len(stdout) = Len(Banner(variant, watcher.cfg)) + Len(invocations)
                         + Len(outcomes)

\* A modification of d.pu is handled with extension pu, and rendered
C2_Witness ==
    /\ handled = <<Event("modified", DiagramPu, FALSE)>>
    /\ Extension = <<"p", "u">>
    /\ Len(invocations) = 1
    /\ invocations[1].filename = DiagramPu

\* The words of a command line: its maximal runs of non-space characters
RECURSIVE WordsFrom(_, _)
WordsFrom(s, word) ==
    IF s = <<>> THEN (IF word = <<>> THEN <<>> ELSE <<word>>)
    ELSE IF Head(s) = " "
         THEN (IF word = <<>> THEN <<>> ELSE <<word>>) \o WordsFrom(Tail(s), <<>>)
         ELSE WordsFrom(Tail(s), Append(word, Head(s)))

Words(s) == WordsFrom(s, <<>>)

RECURSIVE Join(_, _)
Join(parts, separator) ==
    IF parts = <<>> THEN <<>>
    ELSE IF Len(parts) = 1 THEN parts[1]
    ELSE parts[1] \o separator \o Join(Tail(parts), separator)

VerboseFlag == IF Get(variant, watcher.cfg, "verbose") THEN <<<<"-", "v">>>> ELSE <<>>
FormatFlag == <<"-", "t">> \o OutputFormat

\* C3 as stated: the invocation is interpreter, rendererPath, "-v" iff
\* verbose, "-t" + outputFormat, then the source file, and nothing else.
C3_ArgumentsAsStated ==
    \A i \in 1..Len(invocations) :
        Words(invocations[i].command) =
            <<Get(variant, watcher.cfg, "java"), Get(variant, watcher.cfg, "plantuml")>>
            \o VerboseFlag \o <<FormatFlag, invocations[i].filename>>

\* C3, amended: the invocation is one command-line string, the fields
\* interpreter, "-jar", rendererPath, "-v" if verbose and the empty string
\* otherwise, "-t" + outputFormat and the source file joined by single spaces;
\* its words are interpreter, "-jar", rendererPath, "-v" if and only if
\* verbose, "-t" + outputFormat, then the source file, and nothing else. It
\* is a function of the configuration and the source file alone.
C3_CommandLine ==
    \A i \in 1..Len(invocations) :
        /\ invocations[i].command =
              Join(<<Get(variant, watcher.cfg, "java"), <<"-", "j", "a", "r">>,
                     Get(variant, watcher.cfg, "plantuml"),
                     IF Get(variant, watcher.cfg, "verbose") THEN <<"-", "v">> ELSE <<>>,
                     FormatFlag, invocations[i].filename>>, <<" ">>)
        /\ Words(invocations[i].command) =
              <<Get(variant, watcher.cfg, "java"), <<"-", "j", "a", "r">>,
                Get(variant, watcher.cfg, "plantuml")>>
              \o VerboseFlag \o <<FormatFlag, invocations[i].filename>>

\* A command built without the verbosity flag, for svg
C3_Witness ==
    /\ Len(invocations) = 1
    /\ ~Get(variant, watcher.cfg, "verbose")
    /\ OutputFormat = Svg
    /\ Len(Words(invocations[1].command)) = 5

\* The source path with its trailing "." + extension replaced by "." + format
TrailingReplaced(filename) ==
    SubSeq(filename, 1, Len(filename) - Len(Extension) - 1) \o <<".">> \o OutputFormat

\* C4: the reported output path is the source path with only its trailing
\* "." + extension replaced by "." + outputFormat; an earlier occurrence of
\* the same substring in the path is left as it is.
C4_OnlyTrailingExtensionReplaced ==
    \A i \in 1..Len(outcomes) :
        outcomes[i] = Exited(0) =>
            /\ i <= Len(ResultLines)
            /\ ResultLines[i].text = "generated model diagram: "
            /\ ResultLines[i].arg = TrailingReplaced(invocations[i].filename)

\* The report the specification prescribes for an outcome
PrescribedReport(filename, outcome) ==
    IF outcome.kind = "oserror" THEN Line("error: ", 0, outcome.message)
    ELSE IF outcome.code = 0
    THEN Line("generated model diagram: ", 0, TrailingReplaced(filename))
    ELSE Line("error: exit code {} processing file ", outcome.code, filename)

\* C5: for every accepted event, exit code 0 is reported as "generated model
\* diagram: <outputFile>", a non-zero exit code N as "error: exit code N
\* processing file <sourceFile>", and the success report is never printed
\* for a non-zero exit or a launch failure.
C5_ReportMatchesOutcome ==
    /\ Len(ResultLines) = Len(outcomes)
    /\ \A i \in 1..Len(outcomes) :
          ResultLines[i] = PrescribedReport(invocations[i].filename, outcomes[i])

----------------------------------------------------------------------------
(* Claims about a run of main (Spec) *)

Running == pc = "sleeping" /\ observer = "started" /\ status = -1

\* The step is the end of an invocation, with this kind of outcome
Ends(kind) ==
    /\ Len(outcomes') = Len(outcomes) + 1
    /\ outcomes'[Len(outcomes')].kind = kind

LastLine(lines) == lines[Len(lines)]

\* Every accepted notification handled so far was invoked, in order, and all
\* but one still running have their report, in order
ReportedInOrder ==
    LET accepted == SelectSeq(handled, InScope) IN
    /\ Len(invocations) = Len(accepted)
    /\ \A i \in 1..Len(invocations) : invocations[i].filename = accepted[i].path
    /\ Len(outcomes) = Len(invocations) - (IF render.state = "running" THEN 1 ELSE 0)
    /\ Len(ResultLines) = Len(outcomes)

\* C6: a render that exits non-zero is reported and stops nothing: the main
\* thread, the observer and the pending notifications are as before and the
\* handler is free for the next one; every accepted notification handled is
\* invoked and reported, the reports in the order of the notifications.
C6_RenderFailuresNonFatal ==
    /\ [](watcher.made =>
            /\ ReportedInOrder
            /\ \A i \in 1..Len(outcomes) :
                  outcomes[i].kind = "exit" =>
                     IF outcomes[i].code = 0
                     THEN /\ ResultLines[i].text = "generated model diagram: "
                          /\ ResultLines[i].arg =
                                Genfile(variant, watcher.cfg, invocations[i].filename)
                     ELSE ResultLines[i] =
                             Line("error: exit code {} processing file ",
                                  outcomes[i].code, invocations[i].filename))
    /\ [][Ends("exit") /\ outcomes'[Len(outcomes')].code # 0 =>
            /\ pc' = pc /\ observer' = observer /\ status' = status
            /\ Running => Running'
            /\ queue' = queue
            /\ render' = NoRender
            /\ stdout' = Append(stdout,
                                Line("error: exit code {} processing file ",
                                     outcomes'[Len(outcomes')].code, render.filename))]_vars

\* Two renders failed, a third succeeded, and the Watcher is running
C6_Witness ==
    /\ Running
    /\ Len(outcomes) = 3
    /\ outcomes[1].kind = "exit" /\ outcomes[1].code # 0
    /\ outcomes[2].kind = "exit" /\ outcomes[2].code # 0
    /\ outcomes[3] = Exited(0)
    /\ invocations[2].filename # invocations[3].filename
    /\ Len(ResultLines) = 3
    /\ ResultLines[3].text = "generated model diagram: "

\* C7: a render that cannot be launched is reported as "error: <message>"
\* and stops nothing: the main thread and the observer are as before, the
\* subscription stays active and the handler is free for the next
\* notification; later accepted notifications are invoked and reported.
C7_LaunchFailuresNonFatal ==
    /\ [](watcher.made =>
            /\ ReportedInOrder
            /\ \A i \in 1..Len(outcomes) :
                  outcomes[i].kind = "oserror" =>
                     ResultLines[i] = Line("error: ", 0, outcomes[i].message))
    /\ [][Ends("oserror") =>
            /\ pc' = pc /\ status' = status
            /\ observer = "started" /\ observer' = "started"
            /\ Running => Running'
            /\ queue' = Tail(queue)
            /\ render' = NoRender
            /\ LastLine(stdout') =
                  Line("error: ", 0, outcomes'[Len(outcomes')].message)]_vars

\* A launch failed, the next accepted notification was rendered, and the
\* Watcher is running
C7_Witness ==
    /\ Running
    /\ Len(outcomes) = 2
    /\ outcomes[1].kind = "oserror"
    /\ outcomes[2] = Exited(0)
    /\ ResultLines[1].text = "error: "
    /\ ResultLines[2].text = "generated model diagram: "

\* main reaches the resolver
Resolves == variant = "Configurator" \/ command \in {<<>>, <<"watch">>}

ParseFailed == pc \notin {"main", "resolve"} /\ Resolves /\ FirstMalformed # 0

ValidationFailed ==
    /\ pc \notin {"main", "resolve", "watcher_init"}
    /\ config.set
    /\ ~AllValid(variant, config.dict)

\* C8: when the parsing of a configuration file or the validation fails,
\* main ends with the one diagnostic "error: <message>" and a non-zero
\* status; no observer was scheduled or started, no notification handled
\* and no render invoked.
C8_StartupErrorsPrecedeWatching ==
    ParseFailed \/ ValidationFailed =>
        /\ pc \in {"raised", "exit"}
        /\ exc.type = "RuntimeError"
        /\ ParseFailed => exc = RuntimeError(NotJson, FilesRead[FirstMalformed])
        /\ ValidationFailed =>
              \E key \in {"java", "plantuml", "watchdir", "outputdir", "format"} :
                 exc = RuntimeError(CheckText(variant, key), Effective(key))
        /\ observer = "none"
        /\ handled = <<>>
        /\ invocations = <<>>
        /\ IF pc = "exit"
           THEN /\ status > 0
                /\ stderr = <<Line("error: " \o exc.text, 0, exc.arg)>>
           ELSE /\ status = -1
                /\ stderr = <<>>

\* The local configuration file is malformed and main has exited
C8_Witness ==
    /\ pc = "exit"
    /\ files[CwdFile].state = "malformed"
    /\ files[HomeFile].state = "missing"
    /\ status = 1
    /\ stderr = <<Line("error: " \o NotJson, 0, CwdFile)>>
    /\ observer = "none"
    /\ invocations = <<>>

\* main was run with the one command 'configure'
ConfigureMode == variant = "configuration" /\ command = <<"configure">>

\* C11: the 'configure' command writes the default configuration document
\* to the local .plantumlwatch file when none exists and leaves an existing
\* file as it is, then main exits with success; in configure mode no
\* observer is ever scheduled and no render invoked.
C11_ConfigureMode ==
    /\ [](ConfigureMode => observer = "none" /\ invocations = <<>>)
    /\ [][pc = "configure" =>
            /\ files'[CwdFile] = IF files[CwdFile] = Missing
                                 THEN Json(DEFAULT_CONFIGURATION(variant))
                                 ELSE files[CwdFile]
            /\ files'[HomeFile] = files[HomeFile]
            /\ pc' = "exit"
            /\ status' = 0]_vars

\* The render processes launched and not yet ended
InFlight == Len(invocations) - Len(outcomes)

\* C12: at most one render process is in flight at any time, and the
\* handling of a notification begins only when the one before is complete:
\* its process has ended and its result is reported, however many
\* notifications arrived while it ran.
C12_SerializedHandling ==
    /\ [](/\ InFlight \in {0, 1}
          /\ InFlight = 1 <=> render.state = "running")
    /\ [][handled' # handled =>
            /\ InFlight = 0
            /\ render.state = "idle"
            /\ Len(ResultLines) = Len(invocations)
            /\ handled' = Append(handled, Head(queue))
            /\ queue' = Tail(queue)]_vars

\* Two notifications arrived while a render is running, after an earlier
\* render had ended
C12_Witness ==
    /\ Running
    /\ render.state = "running"
    /\ Len(queue) = 1
    /\ Len(handled) = 2
    /\ Len(outcomes) = 1
    /\ InFlight = 1

\* The states of the Watcher's life, read from the main thread's position
\* and the observer
Stopping == pc = "joining" /\ observer = "stopped"
Stopped == observer = "joined"

\* The step is the interrupt caught in the sleep loop
Interrupted == pc = "sleeping" /\ pc' = "joining"

\* The interrupt leaves the render in flight alone; a render ends, also
\* while stopping, only with an outcome and its report; Stopped is reached
\* only with no render in flight and every result reported
RenderSurvivesInterrupt ==
    /\ [][Interrupted =>
            /\ Running /\ Stopping'
            /\ UNCHANGED <<render, invocations, outcomes, stdout, queue>>]_vars
    /\ [][render.state = "running" /\ render'.state = "idle" =>
            /\ Len(outcomes') = Len(outcomes) + 1
            /\ outcomes'[Len(outcomes')].kind = "exit"
            /\ stdout' = Append(stdout,
                                Report(variant, watcher.cfg, render.filename,
                                       outcomes'[Len(outcomes')]))]_vars
    /\ [][Stopped' /\ ~Stopped =>
            Stopping /\ render.state = "idle" /\ render' = render]_vars
    /\ [](Stopped =>
            /\ render.state = "idle"
            /\ InFlight = 0
            /\ Len(ResultLines) = Len(invocations)
            /\ status = 0)

SignalReceived ==
    \/ pc = "joining"
    \/ pc = "exit" /\ observer \in {"started", "stopped"}

\* C14: once the observer is started, an interrupt, whenever it arrives
\* (between observer.start() and the sleep loop, in the loop, a second one
\* during the join), leads to Stopped, the observer stopped before the
\* process ends, provided the render in flight terminates.
C14_CleanShutdownReached ==
    /\ [](SignalReceived => observer \in {"stopped", "joined"})
    /\ (SignalReceived ~> Stopped)

----------------------------------------------------------------------------
(* Claims about a caller that reuses the Watcher (SpecCaller) *)

\* Idle, Running, Stopping, Stopped as 0..3
Rank ==
    CASE observer \in {"none", "scheduled"} -> 0
      [] observer = "started" -> 1
      [] observer = "stopped" -> 2
      [] observer = "joined" -> 3

\* C15: the Watcher only advances along Idle -> Running -> Stopping ->
\* Stopped, and Stopped is terminal: run() / watch() called on a stopped
\* Watcher creates no subscription and does not bring it back to Running.
C15_LifecycleOneWay ==
    [][/\ Rank' \in {Rank, Rank + 1}
       /\ Stopped => Stopped' /\ stdout' = stdout]_vars

----------------------------------------------------------------------------
(* Further claims about the handler (SpecHandler) *)

IsFileEvent(event) == ~event.is_directory

\* C16: a notification whose subject is a directory triggers no render,
\* whatever its path: every invocation belongs to a notification about a
\* file.
C16_DirectoryEventsIgnored ==
    /\ Len(invocations) <= Len(SelectSeq(handled, IsFileEvent))
    /\ \A i \in 1..Len(handled) :
          handled[i].is_directory =>
             \A j \in 1..Len(invocations) : invocations[j].filename # handled[i].path

----------------------------------------------------------------------------
(* Further claims about a run of main (Spec) *)

\* The accepted notifications the handler received for this path, and the
\* renders invoked for it
AcceptedFor(path) ==
    {i \in 1..Len(handled) : InScope(handled[i]) /\ handled[i].path = path}
InvokedFor(path) ==
    {j \in 1..Len(invocations) : invocations[j].filename = path}

\* C17: every accepted notification the handler receives causes exactly one
\* render invocation and one result report: k accepted notifications for a
\* path give k invocations for it, each ended invocation has one report,
\* and an invocation is made only in the step that takes a notification,
\* never again for a render that failed.
C17_NoDedupNoRetry ==
    /\ [](watcher.made =>
            /\ \A e \in MainEvents :
                  Cardinality(InvokedFor(e.path)) = Cardinality(AcceptedFor(e.path))
            /\ Len(ResultLines) = Len(outcomes)
            /\ Len(outcomes) = Len(invocations) - InFlight
            /\ render.state = "idle" => Len(ResultLines) = Len(invocations))
    /\ [][invocations' # invocations =>
            /\ queue # <<>>
            /\ InScope(Head(queue))
            /\ handled' = Append(handled, Head(queue))
            /\ Len(invocations') = Len(invocations) + 1
            /\ SubSeq(invocations', 1, Len(invocations)) = invocations
            /\ invocations'[Len(invocations')].filename = Head(queue).path]_vars
    /\ [][handled' # handled /\ InScope(handled'[Len(handled')]) =>
            Len(invocations') = Len(invocations) + 1]_vars

\* Three accepted notifications for the same path were rendered three
\* times, the first two renders having failed
C17_Witness ==
    /\ Running
    /\ Len(handled) = 3
    /\ \A i \in 1..3 : handled[i] = Event("modified", DiagramPu, FALSE)
    /\ Cardinality(InvokedFor(DiagramPu)) = 3
    /\ Len(outcomes) = 3
    /\ outcomes[1].kind = "oserror"
    /\ outcomes[2].kind = "exit" /\ outcomes[2].code # 0
    /\ outcomes[3] = Exited(0)
    /\ Len(ResultLines) = 3

----------------------------------------------------------------------------
(* Further claims about configuration resolution (SpecResolve) *)

\* No Watcher accessor failed on a missing key, and none can: each of the
\* seven accessors yields a value on the resolved configuration
AccessorsYield ==
    /\ exc.type # "KeyError"
    /\ config.set => \A key \in Keys : HasKey(variant, config.dict, key)
    /\ watcher.made =>
          /\ watcher.cfg = config.dict
          /\ \A key \in Keys : HasKey(variant, watcher.cfg, key)

\* C18 as stated: the resolved configuration defines all seven fields,
\* whatever the files and the caller's overrides, so that no accessor fails
\* on a missing key.
C18_EveryFieldPresent ==
    /\ AccessorsYield
    /\ config.set => Keys \subseteq DOMAIN config.dict

\* C18, amended: no accessor fails on a missing key. The configuration of
\* Configurator defines all seven fields; the configuration of
\* configuration() holds the keys of the one source it was taken from, and
\* the accessors yield the built-in default for a key it lacks.
C18_AccessorsNeverFail ==
    /\ AccessorsYield
    /\ config.set /\ variant = "Configurator" => Keys \subseteq DOMAIN config.dict
    /\ config.set /\ variant = "configuration" =>
          /\ DOMAIN config.dict =
                IF files[argopts.dict["config"]].state = "missing"
                THEN DOMAIN argopts.dict
                ELSE DOMAIN files[argopts.dict["config"]].doc
          /\ \A key \in Keys \ DOMAIN config.dict :
                Get(variant, config.dict, key) = DEFAULT_CONFIGURATION(variant)[key]
          /\ pc = "raised" /\ ~AllValid(variant, config.dict) =>
                \E key \in {"java", "plantuml", "watchdir", "outputdir", "format"} :
                   exc = RuntimeError(CheckText(variant, key),
                                      Get(variant, config.dict, key))

\* The local file defines the format alone; validation read the interpreter
\* through its accessor, got the default and rejected it
C18_Witness ==
    /\ variant = "configuration"
    /\ config.set
    /\ DOMAIN config.dict = {"format"}
    /\ pc = "raised"
    /\ exc = RuntimeError(CheckText(variant, "java"), DEFAULT_JAVA)

----------------------------------------------------------------------------
(* Claims about the command line of main (Spec) *)

\* The value the persisted files give the key: the local file's, else the
\* global file's
Persisted(key) ==
    IF FileDefines(CwdFile, key) THEN files[CwdFile].doc[key]
    ELSE files[HomeFile].doc[key]

\* C19: for a key whose flag is not given on the command line and which a
\* persisted file defines, the configuration main hands to the Watcher
\* holds the file's value.
C19_PersistedValuesTakeEffect ==
    config.set =>
        \A key \in Keys :
            /\ key \notin DOMAIN cli
            /\ FileDefines(CwdFile, key) \/ FileDefines(HomeFile, key)
            => Effective(key) = Persisted(key)

=============================================================================
